---- MODULE Spec2Model ----
(***************************************************************************)
(* Dispatch core of the taxi backend (src/backend/server.js): the          *)
(* connectedUsers map (Registry), the activeDrivers set (Availability      *)
(* Set), the pendingRides map (Ride Ledger), the Socket.IO handlers of the *)
(* main namespace, the /external monitoring namespace and the REST         *)
(* endpoints that mutate the three collections.  Node runs every handler   *)
(* to completion, so each handler is one atomic action.                    *)
(***************************************************************************)
EXTENDS Integers, Sequences, FiniteSets, TLC

----------------------------------------------------------------------------
(* Bounds of the model and the sets the event payloads are drawn from.      *)

MaxSockets == 2

\* longest recorded list of rideAccepted feed events per ride
MaxFed == 2

\* longest list of available rides of a dashboard
MaxShown == 4

\* most sockets a dashboard holds open
MaxOpen == 3

UserIds == {"D1", "C1"}
Roles == {"driver", "client"}
RideIds == {"R1", "R2"}
ExtIds == {"M1"}

\* lat/lng pairs sent by updateLocation and the REST endpoints
Locations == {[lat |-> 1, lng |-> 3], [lat |-> 2, lng |-> 4]}

\* (pickupLocation, destinationLocation, location) triples of a ride request
RideInputs ==
    { [pickupLocation |-> <<1, 1>>, destinationLocation |-> <<2, 2>>, location |-> <<1, 1>>],
      [pickupLocation |-> <<2, 2>>, destinationLocation |-> <<1, 1>>, location |-> <<2, 1>>] }

OneLocation == CHOOSE loc \in Locations : loc.lat = 1

OneInput == CHOOSE in \in RideInputs : in.location # in.pickupLocation

SocketIds == 1..MaxSockets

\* the socketId of a Registry entry written by POST /api/drivers/connect,
\* which stores no socketId field (undefined in JavaScript)
NoSocket == 0

\* JavaScript values of a body field that should hold a number: a number is
\* itself (all numbers of the model are positive); Undefined is the value of
\* a field the body lacks, Text a string such as "abc" or one of its
\* characters
Undefined == -1

Text == -2

\* typeof x === 'number'
IsNumber(x) == x \notin {Undefined, Text}

\* an id field the body lacks (or the empty string): !id is true
NoId == ""

\* a pickupLocation / destinationLocation field the body lacks
MissingPair == <<Undefined>>

\* a pickupLocation / destinationLocation that is a string: indexing it
\* yields characters
TextPair == <<Text, Text>>

\* locations whose lat is absent or a string
BadLocations == {[lat |-> Undefined, lng |-> 3], [lat |-> Text, lng |-> 3]}

\* ride bodies of notify-driver that lack pickupLocation or carry a string
BadRideInputs ==
    { [pickupLocation |-> MissingPair, destinationLocation |-> <<2, 2>>,
       location |-> <<1, 1>>],
      [pickupLocation |-> TextPair, destinationLocation |-> <<2, 2>>,
       location |-> <<1, 1>>] }

----------------------------------------------------------------------------
(* JavaScript Map: entries in insertion order; set() on a present key       *)
(* replaces the value in place, on an absent key appends.                   *)

MapHas(m, k) == \E i \in 1..Len(m) : m[i].key = k

MapGet(m, k) == m[CHOOSE i \in 1..Len(m) : m[i].key = k].val

MapSet(m, k, v) ==
    IF MapHas(m, k)
    THEN [i \in 1..Len(m) |-> IF m[i].key = k THEN [key |-> k, val |-> v] ELSE m[i]]
    ELSE Append(m, [key |-> k, val |-> v])

MapDelete(m, k) == SelectSeq(m, LAMBDA e : e.key # k)

----------------------------------------------------------------------------
VARIABLES
    connectedUsers,  \* Map userId -> [socketId, location, role]
    activeDrivers,   \* Set of driver ids
    pendingRides,    \* Map rideId -> ride record
    sockets,         \* open connections of the main namespace
    nextSocket,      \* id the next main-namespace connection gets
    last,            \* the event whose handler ran last
    sent,            \* what that handler emitted to participants, in order
    feed,            \* what it emitted to the whole /external namespace
    reply,           \* what it emitted to one /external socket
    res,             \* HTTP status it answered with ("none": not a REST call)
    accepts,         \* per ride: acceptRide history since its creation
    seen,            \* what participants and the Monitoring Feed were told so far
    dash             \* state of one DriverDashboard component (the driver's browser)

vars == <<connectedUsers, activeDrivers, pendingRides, sockets, nextSocket,
          last, sent, feed, reply, res, accepts, seen, dash>>

core == <<connectedUsers, activeDrivers, pendingRides>>

----------------------------------------------------------------------------
(* Socket.IO emit targets, resolved to the set of sockets that receive.    *)

\* io.emit(ev, data): every open socket of the main namespace
IoEmit(ev, data) == [ev |-> ev, data |-> data, rcpt |-> sockets]

\* Variant of BroadcastEmit: io.emit, the sender included.
BroadcastEmit_All(s, ev, data) == [ev |-> ev, data |-> data, rcpt |-> sockets]

\* socket.broadcast.emit(ev, data): every open socket except the sender
BroadcastEmit(s, ev, data) == [ev |-> ev, data |-> data, rcpt |-> sockets \ {s}]

\* io.to(socketId).emit(ev, data): the room of that socket id
ToEmit(sid, ev, data) == [ev |-> ev, data |-> data, rcpt |-> sockets \cap {sid}]

\* externalIo.emit(ev, data)
ExternalEmit(ev, data) == [ev |-> ev, data |-> data]

\* socket.emit(ev, data) on a socket of the /external namespace
ExtSocketEmit(m, ev, data) == [to |-> m, ev |-> ev, data |-> data]

\* a list that carries one member only (a delta instead of the membership)
DriverList_Delta(ad) == IF ad = {} THEN {} ELSE {CHOOSE d \in ad : TRUE}

\* Array.from(activeDrivers): the membership of the set
DriverList(ad) == ad

\* `${x[0].toFixed(4)}, ${x[1].toFixed(4)}` of a coordinate pair
FormatPair(x) == [text |-> "toFixed4", a |-> x[1], b |-> x[2]]

\* History of a ride id, kept for the statements about acceptance.  tracked: the
\* ride was created by a requestRide and was neither cancelled nor created by
\* notify-driver since; first: the driver named by the first acceptRide
\* processed since that requestRide; fed: the drivers named by the rideAccepted
\* events the Monitoring Feed got since then.
NoHistory == [tracked |-> FALSE, first |-> "none", fed |-> <<>>]

\* history of a ride that requestRide has just created
FreshHistory == [tracked |-> TRUE, first |-> "none", fed |-> <<>>]

\* the history after an acceptRide event naming driverId was processed;
\* emitted tells whether the handler emitted rideAccepted to the feed
RecordAccept(h, driverId, emitted) ==
    IF ~h.tracked THEN h
    ELSE [tracked |-> TRUE,
          first |-> IF h.first = "none" THEN driverId ELSE h.first,
          fed |-> IF emitted /\ Len(h.fed) < MaxFed THEN Append(h.fed, driverId)
                                                     ELSE h.fed]

\* History of the events processed, kept for the statements that span
\* several operations.  on: the history is recorded; handles[u]: the
\* connections u sent updateLocation on; announced: the list of the most
\* recent driversAvailable broadcast, if any; created[r]: the pickup and
\* destination of the most recent rideCreated the Monitoring Feed got for r,
\* if any.
NothingSeen(on) ==
    [on |-> on,
     handles |-> [u \in UserIds |-> {}],
     announced |-> [any |-> FALSE, list |-> {}],
     created |-> [r \in RideIds |-> [any |-> FALSE, pickup |-> <<>>, destination |-> <<>>]]]

\* the positions of the ev events in a sequence of emissions
Positions(msgs, ev) == {i \in 1..Len(msgs) : msgs[i].ev = ev}

\* the history after a handler that processed the event l and emitted s to
\* participants and f to the Monitoring Feed
See(h, l, s, f) ==
    IF ~h.on THEN h
    ELSE [on |-> TRUE,
          handles |->
              [u \in UserIds |->
                  IF l.op = "updateLocation" /\ l.userId = u
                  THEN h.handles[u] \cup {l.socket}
                  ELSE h.handles[u]],
          announced |->
              IF Positions(s, "driversAvailable") = {} THEN h.announced
              ELSE [any |-> TRUE,
                    list |-> s[CHOOSE i \in Positions(s, "driversAvailable") :
                                  \A j \in Positions(s, "driversAvailable") : j <= i].data],
          created |->
              [r \in RideIds |->
                  IF \E i \in Positions(f, "rideCreated") : f[i].data.rideId = r
                  THEN LET i == CHOOSE k \in Positions(f, "rideCreated") :
                                   f[k].data.rideId = r
                       IN [any |-> TRUE, pickup |-> f[i].data.pickupLocation,
                           destination |-> f[i].data.destinationLocation]
                  ELSE h.created[r]]]

\* the dashboard of a browser in which no DriverDashboard is mounted
NoDashboard ==
    [mounted |-> FALSE, geolocation |-> FALSE, isOnline |-> FALSE,
     currentRide |-> "none", availableRides |-> <<>>,
     listening |-> FALSE, open |-> 0, event |-> [op |-> "none"]]

----------------------------------------------------------------------------
\* the server after construction: empty collections, no connection
Booted ==
    /\ connectedUsers = <<>>
    /\ activeDrivers = {}
    /\ pendingRides = <<>>
    /\ sockets = {}
    /\ nextSocket = 1
    /\ last = [op |-> "idle"]
    /\ sent = <<>>
    /\ feed = <<>>
    /\ reply = <<>>
    /\ res = "none"
    /\ accepts = [r \in RideIds |-> NoHistory]

Init ==
    /\ Booted
    /\ seen = NothingSeen(FALSE)
    /\ dash = NoDashboard

----------------------------------------------------------------------------
\* the event loop is idle: no handler's output is waiting to be written out
Idle == last.op = "idle"

(* The handler has returned: the event loop writes the packets it emitted   *)
(* to the transports and takes the next event.                              *)
Flush ==
    /\ ~Idle
    /\ last' = [op |-> "idle"]
    /\ sent' = <<>>
    /\ feed' = <<>>
    /\ reply' = <<>>
    /\ res' = "none"
    /\ UNCHANGED <<core, sockets, nextSocket, accepts>>
    /\ seen' = See(seen, last', sent', feed')
    /\ UNCHANGED dash

(* io.on('connection'): a new connection of the main namespace              *)
Connect ==
    /\ Idle /\ nextSocket <= MaxSockets
    /\ sockets' = sockets \cup {nextSocket}
    /\ nextSocket' = nextSocket + 1
    /\ last' = [op |-> "connection", socket |-> nextSocket]
    /\ sent' = <<>>
    /\ feed' = <<>>
    /\ reply' = <<>>
    /\ res' = "none"
    /\ UNCHANGED <<core, accepts>>
    /\ seen' = See(seen, last', sent', feed')
    /\ UNCHANGED dash

\* Variant of RegistryAfterUpdate: an id that is already registered keeps its
\* stored entry.
RegistryAfterUpdate_KeepFirst(s, userId, loc, role) ==
    IF MapHas(connectedUsers, userId) THEN connectedUsers
    ELSE MapSet(connectedUsers, userId,
                [socketId |-> s, location |-> [lat |-> loc.lat, lng |-> loc.lng],
                 role |-> role])

\* connectedUsers.set(userId, { socketId: socket.id, location: { lat, lng }, role })
RegistryAfterUpdate(s, userId, loc, role) ==
    MapSet(connectedUsers, userId,
           [socketId |-> s, location |-> [lat |-> loc.lat, lng |-> loc.lng], role |-> role])

\* Variant of AvailableAfterUpdate: only an id that registers for the first
\* time is added.
AvailableAfterUpdate_IfNew(userId, role) ==
    IF role = "driver" /\ ~MapHas(connectedUsers, userId)
    THEN activeDrivers \cup {userId}
    ELSE activeDrivers

\* if (role === 'driver') activeDrivers.add(userId)
AvailableAfterUpdate(userId, role) ==
    IF role = "driver" THEN activeDrivers \cup {userId} ELSE activeDrivers

(* socket.on('updateLocation')                                              *)
UpdateLocation(s, userId, loc, role) ==
    /\ Idle /\ s \in sockets
    /\ connectedUsers' = RegistryAfterUpdate(s, userId, loc, role)
    /\ activeDrivers' = AvailableAfterUpdate(userId, role)
    /\ sent' = <<BroadcastEmit(s, "userLocationUpdate",
                               [userId |-> userId, location |-> loc, role |-> role])>>
    /\ feed' = IF role = "driver"
               THEN <<ExternalEmit("driverLocationUpdate",
                                   [driverId |-> userId, location |-> loc])>>
               ELSE <<>>
    /\ reply' = <<>>
    /\ res' = "none"
    /\ last' = [op |-> "updateLocation", socket |-> s, userId |-> userId,
                location |-> loc, role |-> role]
    /\ UNCHANGED <<pendingRides, sockets, nextSocket, accepts>>
    /\ seen' = See(seen, last', sent', feed')
    /\ UNCHANGED dash

\* Variant of OnlineSet: only ids the Registry knows are added.
OnlineSet_IfRegistered(userId) ==
    IF MapHas(connectedUsers, userId) THEN activeDrivers \cup {userId} ELSE activeDrivers

\* activeDrivers.add(userId)
OnlineSet(userId) == activeDrivers \cup {userId}

\* Variant of OfflineSet: activeDrivers.clear().
OfflineSet_Clear(userId) == {}

\* Variant of OfflineSet: the membership of userId is toggled.
OfflineSet_Toggle(userId) ==
    IF userId \in activeDrivers THEN activeDrivers \ {userId}
                                ELSE activeDrivers \cup {userId}

\* activeDrivers.delete(userId)
OfflineSet(userId) == activeDrivers \ {userId}

(* socket.on('driverOnline')                                                *)
DriverOnline(userId) ==
    /\ Idle /\ sockets # {}
    /\ activeDrivers' = OnlineSet(userId)
    /\ sent' = <<IoEmit("driversAvailable", DriverList(activeDrivers'))>>
    /\ feed' = <<ExternalEmit("driverStatusChange",
                              [driverId |-> userId, status |-> "online"])>>
    /\ reply' = <<>>
    /\ res' = "none"
    /\ last' = [op |-> "driverOnline", userId |-> userId]
    /\ UNCHANGED <<connectedUsers, pendingRides, sockets, nextSocket, accepts>>
    /\ seen' = See(seen, last', sent', feed')
    /\ UNCHANGED dash

(* socket.on('driverOffline')                                               *)
DriverOffline(userId) ==
    /\ Idle /\ sockets # {}
    /\ activeDrivers' = OfflineSet(userId)
    /\ sent' = <<IoEmit("driversAvailable", DriverList(activeDrivers'))>>
    /\ feed' = <<ExternalEmit("driverStatusChange",
                              [driverId |-> userId, status |-> "offline"])>>
    /\ reply' = <<>>
    /\ res' = "none"
    /\ last' = [op |-> "driverOffline", userId |-> userId]
    /\ UNCHANGED <<connectedUsers, pendingRides, sockets, nextSocket, accepts>>
    /\ seen' = See(seen, last', sent', feed')
    /\ UNCHANGED dash

\* Variant of FanOut: the walk stops after the first driver it emits to.
FanOut_First(drivers, ev, data) ==
    LET reachable == {d \in drivers : MapHas(connectedUsers, d)
                                      /\ MapGet(connectedUsers, d).socketId # NoSocket}
    IN IF reachable = {} THEN <<>>
       ELSE <<ToEmit(MapGet(connectedUsers, CHOOSE d \in reachable : TRUE).socketId,
                     ev, data)>>

\* Variant of FanOut: the walk is over the Registry instead of the given
\* drivers, one emit per entry that has a connection handle.
FanOut_Registry(drivers, ev, data) ==
    [i \in 1..Len(SelectSeq(connectedUsers, LAMBDA e : e.val.socketId # NoSocket)) |->
        ToEmit(SelectSeq(connectedUsers, LAMBDA e : e.val.socketId # NoSocket)[i].val.socketId,
               ev, data)]

\* activeDrivers.forEach(driverId => { if (driverData && driverData.socketId)
\*   io.to(driverData.socketId).emit(ev, data) }): one emit per reachable driver.
\* The set is walked in some order; the emits of one walk all carry the same
\* event, so the walk is kept as the set of drivers emitted to.
RECURSIVE FanOut(_, _, _)
FanOut(drivers, ev, data) ==
    IF drivers = {} THEN <<>>
    ELSE LET d == CHOOSE x \in drivers : TRUE
             rest == FanOut(drivers \ {d}, ev, data)
         IN IF MapHas(connectedUsers, d) /\ MapGet(connectedUsers, d).socketId # NoSocket
            THEN <<ToEmit(MapGet(connectedUsers, d).socketId, ev, data)>> \o rest
            ELSE rest

\* Variant of ClientNotice: the notification is never sent.
ClientNotice_Dropped(clientId, ev, data) == <<>>

\* const clientData = connectedUsers.get(clientId)
\* if (clientData && clientData.socketId) io.to(clientData.socketId).emit(ev, data)
ClientNotice(clientId, ev, data) ==
    IF MapHas(connectedUsers, clientId)
       /\ MapGet(connectedUsers, clientId).socketId # NoSocket
    THEN <<ToEmit(MapGet(connectedUsers, clientId).socketId, ev, data)>>
    ELSE <<>>

\* the record requestRide stores in pendingRides
NewRide(rideId, clientId, in) ==
    [rideId |-> rideId, clientId |-> clientId,
     pickupLocation |-> in.pickupLocation,
     destinationLocation |-> in.destinationLocation,
     clientLocation |-> in.location,
     status |-> "pending"]

\* the rideData payload of a rideRequest notification
RideData(rideId, userId, in) ==
    [id |-> rideId, userId |-> userId,
     pickup |-> FormatPair(in.pickupLocation),
     destination |-> FormatPair(in.destinationLocation),
     location |-> in.pickupLocation]

\* Variant of LedgerAfterRequest: the ledger as a list that is pushed to.
LedgerAfterRequest_Push(rideId, ride) ==
    Append(pendingRides, [key |-> rideId, val |-> ride])

\* Variant of LedgerAfterRequest: the ledger holds the latest request only.
LedgerAfterRequest_Single(rideId, ride) == <<[key |-> rideId, val |-> ride]>>

\* Variant of LedgerAfterRequest: a ride id that is already in the ledger
\* keeps its record.
LedgerAfterRequest_KeepFirst(rideId, ride) ==
    IF MapHas(pendingRides, rideId) THEN pendingRides
    ELSE MapSet(pendingRides, rideId, ride)

\* pendingRides.set(rideId, ride)
LedgerAfterRequest(rideId, ride) == MapSet(pendingRides, rideId, ride)

(* socket.on('requestRide')                                                 *)
RequestRide(rideId, userId, in) ==
    /\ Idle /\ sockets # {}
    /\ pendingRides' = LedgerAfterRequest(rideId, NewRide(rideId, userId, in))
    /\ sent' = FanOut(activeDrivers, "rideRequest", RideData(rideId, userId, in))
    /\ feed' = <<ExternalEmit("rideCreated",
                   [rideId |-> rideId, clientId |-> userId,
                    pickupLocation |-> in.pickupLocation,
                    destinationLocation |-> in.destinationLocation,
                    clientLocation |-> in.location, status |-> "pending"])>>
    /\ reply' = <<>>
    /\ res' = "none"
    /\ accepts' = [accepts EXCEPT ![rideId] = FreshHistory]
    /\ last' = [op |-> "requestRide", rideId |-> rideId, userId |-> userId,
                input |-> in]
    /\ UNCHANGED <<connectedUsers, activeDrivers, sockets, nextSocket>>
    /\ seen' = See(seen, last', sent', feed')
    /\ UNCHANGED dash

\* Variant of AcceptNotice: the client recorded in the Ledger is notified.
AcceptNotice_Recorded(rideId, driverId, clientId) ==
    IF MapHas(pendingRides, rideId)
    THEN ClientNotice(MapGet(pendingRides, rideId).clientId, "rideAccepted",
                      [rideId |-> rideId, driverId |-> driverId])
    ELSE <<>>

\* acceptRide, what the client is sent: nothing when the ride is not found
AcceptNotice(rideId, driverId, clientId) ==
    IF MapHas(pendingRides, rideId)
    THEN ClientNotice(clientId, "rideAccepted", [rideId |-> rideId, driverId |-> driverId])
    ELSE <<>>

\* Variant of AcceptFeed: the emit is outside `if (ride)'.
AcceptFeed_Unguarded(rideId, driverId, clientId) ==
    <<ExternalEmit("rideAccepted",
        [rideId |-> rideId, driverId |-> driverId, clientId |-> clientId])>>

\* Variant of AcceptFeed: the emit is inside the `if' of the client lookup.
AcceptFeed_IfNotified(rideId, driverId, clientId) ==
    IF /\ MapHas(pendingRides, rideId)
       /\ MapHas(connectedUsers, clientId)
       /\ MapGet(connectedUsers, clientId).socketId # NoSocket
    THEN <<ExternalEmit("rideAccepted",
             [rideId |-> rideId, driverId |-> driverId, clientId |-> clientId,
              pickupLocation |-> MapGet(pendingRides, rideId).pickupLocation,
              destinationLocation |-> MapGet(pendingRides, rideId).destinationLocation])>>
    ELSE <<>>

\* acceptRide, what the Monitoring Feed is sent (inside `if (ride)')
AcceptFeed(rideId, driverId, clientId) ==
    IF MapHas(pendingRides, rideId)
    THEN LET ride == MapGet(pendingRides, rideId) IN
         <<ExternalEmit("rideAccepted",
             [rideId |-> rideId, driverId |-> driverId, clientId |-> clientId,
              pickupLocation |-> ride.pickupLocation,
              destinationLocation |-> ride.destinationLocation])>>
    ELSE <<>>

\* Variant of LedgerAfterAccept: pendingRides.delete(rideId) is missing, the
\* record stays in the ledger with status accepted.
LedgerAfterAccept_Keep(rideId, driverId) ==
    IF MapHas(pendingRides, rideId)
    THEN MapSet(pendingRides, rideId,
                [rideId |-> rideId,
                 clientId |-> MapGet(pendingRides, rideId).clientId,
                 pickupLocation |-> MapGet(pendingRides, rideId).pickupLocation,
                 destinationLocation |-> MapGet(pendingRides, rideId).destinationLocation,
                 clientLocation |-> MapGet(pendingRides, rideId).clientLocation,
                 status |-> "accepted"])
    ELSE pendingRides

\* Variant of LedgerAfterAccept: only a driver of the Availability Set that
\* is registered can accept.
LedgerAfterAccept_IfAvailable(rideId, driverId) ==
    IF driverId \in activeDrivers /\ MapHas(connectedUsers, driverId)
    THEN MapDelete(pendingRides, rideId)
    ELSE pendingRides

\* acceptRide, the Ledger: ride.status = 'accepted', ride.driverId = driverId
\* on the stored record, and at the end pendingRides.delete(rideId)
LedgerAfterAccept(rideId, driverId) ==
    IF MapHas(pendingRides, rideId)
    THEN MapDelete(MapSet(pendingRides, rideId,
                          [rideId |-> rideId,
                           clientId |-> MapGet(pendingRides, rideId).clientId,
                           pickupLocation |-> MapGet(pendingRides, rideId).pickupLocation,
                           destinationLocation |->
                               MapGet(pendingRides, rideId).destinationLocation,
                           clientLocation |-> MapGet(pendingRides, rideId).clientLocation,
                           status |-> "accepted"]),
                   rideId)
    ELSE pendingRides

(* socket.on('acceptRide')                                                  *)
AcceptRide(rideId, driverId, clientId) ==
    /\ Idle /\ sockets # {}
    /\ sent' = AcceptNotice(rideId, driverId, clientId)
    /\ feed' = AcceptFeed(rideId, driverId, clientId)
    /\ pendingRides' = LedgerAfterAccept(rideId, driverId)
    /\ reply' = <<>>
    /\ res' = "none"
    /\ accepts' = [accepts EXCEPT
                     ![rideId] = RecordAccept(@, driverId, feed' # <<>>)]
    /\ last' = [op |-> "acceptRide", rideId |-> rideId,
                driverId |-> driverId, clientId |-> clientId,
                requester |-> IF MapHas(pendingRides, rideId)
                              THEN MapGet(pendingRides, rideId).clientId
                              ELSE "none"]
    /\ UNCHANGED <<connectedUsers, activeDrivers, sockets, nextSocket>>
    /\ seen' = See(seen, last', sent', feed')
    /\ UNCHANGED dash

\* Variant of LedgerAfterReject: a rejected ride is withdrawn.
LedgerAfterReject_Withdraw(rideId, driverId) == MapDelete(pendingRides, rideId)

\* the Ledger after rejectRide: the handler only logs
LedgerAfterReject(rideId, driverId) == pendingRides

(* socket.on('rejectRide')                                                  *)
RejectRide(rideId, driverId) ==
    /\ Idle /\ sockets # {}
    /\ pendingRides' = LedgerAfterReject(rideId, driverId)
    /\ sent' = <<>>
    /\ feed' = <<>>
    /\ reply' = <<>>
    /\ res' = "none"
    /\ last' = [op |-> "rejectRide", rideId |-> rideId, driverId |-> driverId]
    /\ UNCHANGED <<connectedUsers, activeDrivers, sockets, nextSocket, accepts>>
    /\ seen' = See(seen, last', sent', feed')
    /\ UNCHANGED dash

\* Variant of LedgerAfterCancel: only the recorded requester can cancel.
LedgerAfterCancel_OwnerOnly(rideId, userId) ==
    IF MapHas(pendingRides, rideId) /\ MapGet(pendingRides, rideId).clientId = userId
    THEN MapDelete(pendingRides, rideId)
    ELSE pendingRides

\* cancelRide, the Ledger: pendingRides.delete(rideId), userId is only logged
LedgerAfterCancel(rideId, userId) == MapDelete(pendingRides, rideId)

(* socket.on('cancelRide')                                                  *)
CancelRide(rideId, userId) ==
    /\ Idle /\ sockets # {}
    /\ pendingRides' = LedgerAfterCancel(rideId, userId)
    /\ sent' = FanOut(activeDrivers, "rideCancelled", [rideId |-> rideId])
    /\ feed' = <<>>
    /\ reply' = <<>>
    /\ res' = "none"
    /\ accepts' = [accepts EXCEPT ![rideId] = NoHistory]
    /\ last' = [op |-> "cancelRide", rideId |-> rideId, userId |-> userId,
                requester |-> IF MapHas(pendingRides, rideId)
                              THEN MapGet(pendingRides, rideId).clientId
                              ELSE "none"]
    /\ UNCHANGED <<connectedUsers, activeDrivers, sockets, nextSocket>>
    /\ seen' = See(seen, last', sent', feed')
    /\ UNCHANGED dash

\* Variant of AvailableAfterComplete: a completion of a ride that is still
\* pending (never accepted) is ignored.
AvailableAfterComplete_IfAccepted(rideId, driverId) ==
    IF MapHas(pendingRides, rideId) THEN activeDrivers
    ELSE activeDrivers \cup {driverId}

\* completeRide: activeDrivers.add(driverId), whatever the ride id
AvailableAfterComplete(rideId, driverId) == activeDrivers \cup {driverId}

(* socket.on('completeRide')                                                *)
CompleteRide(rideId, driverId, clientId) ==
    /\ Idle /\ sockets # {}
    /\ activeDrivers' = AvailableAfterComplete(rideId, driverId)
    /\ sent' = ClientNotice(clientId, "rideCompleted", <<>>)
               \o <<IoEmit("driversAvailable", DriverList(activeDrivers'))>>
    /\ feed' = <<ExternalEmit("rideCompleted",
                   [rideId |-> rideId, driverId |-> driverId, clientId |-> clientId]),
                 ExternalEmit("driverStatusChange",
                   [driverId |-> driverId, status |-> "online"])>>
    /\ reply' = <<>>
    /\ res' = "none"
    /\ last' = [op |-> "completeRide", rideId |-> rideId,
                driverId |-> driverId, clientId |-> clientId]
    /\ UNCHANGED <<connectedUsers, pendingRides, sockets, nextSocket, accepts>>
    /\ seen' = See(seen, last', sent', feed')
    /\ UNCHANGED dash

\* Variant of FirstOf: the disconnect loop stops at the oldest entry of the
\* Registry, whichever connection it holds.
FirstOf_Oldest(s) == IF Len(connectedUsers) > 0 THEN 1 ELSE 0

\* the first entry of connectedUsers, in Map order, whose socketId is s
\* (0 when there is none): the entry the disconnect loop stops at
FirstOf(s) ==
    IF \E i \in 1..Len(connectedUsers) : connectedUsers[i].val.socketId = s
    THEN CHOOSE i \in 1..Len(connectedUsers) :
            /\ connectedUsers[i].val.socketId = s
            /\ \A j \in 1..(i - 1) : connectedUsers[j].val.socketId # s
    ELSE 0

\* Variant of LedgerAfterDisconnect: the rides requested by the participants
\* registered through the closing connection are cancelled.
LedgerAfterDisconnect_CancelOwn(s) ==
    SelectSeq(pendingRides,
              LAMBDA e : ~(/\ MapHas(connectedUsers, e.val.clientId)
                           /\ MapGet(connectedUsers, e.val.clientId).socketId = s))

\* the Ledger after the disconnect handler: it has no statement on pendingRides
LedgerAfterDisconnect(s) == pendingRides

(* socket.on('disconnect'): the connection s closes                         *)
Disconnect(s) ==
    /\ Idle /\ s \in sockets
    /\ sockets' = sockets \ {s}
    /\ LET i == FirstOf(s) IN
       IF i = 0
       THEN /\ UNCHANGED <<connectedUsers, activeDrivers>>
            /\ sent' = <<>>
       ELSE LET userId == connectedUsers[i].key
                userData == connectedUsers[i].val
            IN /\ connectedUsers' = MapDelete(connectedUsers, userId)
               /\ IF userData.role = "driver"
                  THEN /\ activeDrivers' = activeDrivers \ {userId}
                       /\ sent' = <<[ev |-> "driversAvailable",
                                     data |-> DriverList(activeDrivers'),
                                     rcpt |-> sockets']>>
                  ELSE /\ activeDrivers' = activeDrivers
                       /\ sent' = <<>>
    /\ feed' = <<>>
    /\ reply' = <<>>
    /\ res' = "none"
    /\ pendingRides' = LedgerAfterDisconnect(s)
    /\ last' = [op |-> "disconnect", socket |-> s]
    /\ UNCHANGED <<nextSocket, accepts>>
    /\ seen' = See(seen, last', sent', feed')
    /\ UNCHANGED dash

----------------------------------------------------------------------------
(* The /external namespace (Monitoring Feed subscribers).                   *)

\* Variant of InitialDrivers: the drivers of the Registry instead of the
\* members of activeDrivers.
InitialDrivers_Registry ==
    { [driverId |-> connectedUsers[i].key, location |-> connectedUsers[i].val.location] :
        i \in {j \in 1..Len(connectedUsers) : connectedUsers[j].val.role = "driver"} }

\* the drivers list of initialData: one entry per active driver that has a
\* Registry entry (.filter(Boolean) drops the others)
InitialDrivers ==
    { [driverId |-> d, location |-> MapGet(connectedUsers, d).location] :
        d \in {x \in activeDrivers : MapHas(connectedUsers, x)} }

\* the pendingRides list of initialData, in Map order
InitialRides ==
    [i \in 1..Len(pendingRides) |->
        [rideId |-> pendingRides[i].val.rideId,
         clientId |-> pendingRides[i].val.clientId,
         pickupLocation |-> pendingRides[i].val.pickupLocation,
         destinationLocation |-> pendingRides[i].val.destinationLocation,
         status |-> pendingRides[i].val.status]]

(* externalIo.on('connection')                                              *)
ExtConnect(m) ==
    /\ Idle
    /\ reply' = <<ExtSocketEmit(m, "initialData",
                    [drivers |-> InitialDrivers, pendingRides |-> InitialRides])>>
    /\ res' = "none"
    /\ sent' = <<>>
    /\ feed' = <<>>
    /\ last' = [op |-> "extConnection", socket |-> m]
    /\ UNCHANGED <<core, sockets, nextSocket, accepts>>
    /\ seen' = See(seen, last', sent', feed')
    /\ UNCHANGED dash

\* Variant of LocationReply: only entries with role driver are found.
LocationReply_DriversOnly(m, driverId) ==
    IF MapHas(connectedUsers, driverId)
       /\ MapGet(connectedUsers, driverId).role = "driver"
    THEN <<ExtSocketEmit(m, "driverLocation",
             [driverId |-> driverId,
              location |-> MapGet(connectedUsers, driverId).location])>>
    ELSE <<ExtSocketEmit(m, "driverNotFound", [driverId |-> driverId])>>

\* const driverData = connectedUsers.get(driverId)
\* if (driverData) socket.emit('driverLocation', { driverId, location })
\* else socket.emit('driverNotFound', { driverId })
LocationReply(m, driverId) ==
    IF MapHas(connectedUsers, driverId)
    THEN <<ExtSocketEmit(m, "driverLocation",
             [driverId |-> driverId,
              location |-> MapGet(connectedUsers, driverId).location])>>
    ELSE <<ExtSocketEmit(m, "driverNotFound", [driverId |-> driverId])>>

(* socket.on('requestDriverLocation') of the /external namespace            *)
RequestDriverLocation(m, driverId) ==
    /\ Idle
    /\ reply' = LocationReply(m, driverId)
    /\ res' = "none"
    /\ sent' = <<>>
    /\ feed' = <<>>
    /\ last' = [op |-> "requestDriverLocation", socket |-> m, driverId |-> driverId]
    /\ UNCHANGED <<core, sockets, nextSocket, accepts>>
    /\ seen' = See(seen, last', sent', feed')
    /\ UNCHANGED dash

(* socket.on('disconnect') of the /external namespace                       *)
ExtDisconnect(m) ==
    /\ Idle
    /\ reply' = <<>>
    /\ res' = "none"
    /\ sent' = <<>>
    /\ feed' = <<>>
    /\ last' = [op |-> "extDisconnect", socket |-> m]
    /\ UNCHANGED <<core, sockets, nextSocket, accepts>>
    /\ seen' = See(seen, last', sent', feed')
    /\ UNCHANGED dash

----------------------------------------------------------------------------
(* REST endpoints that write to the three collections.                      *)

\* Variant of ValidCoordinates: lat and lng are only required to be present.
ValidCoordinates_Present(loc) == loc.lat # Undefined /\ loc.lng # Undefined

\* !(typeof lat !== 'number' || typeof lng !== 'number')
ValidCoordinates(loc) == IsNumber(loc.lat) /\ IsNumber(loc.lng)

\* const { status = 'online' } = req.body
StatusOrDefault(status) == IF status = "undefined" THEN "online" ELSE status

\* Variant of EntryAfterConnect: a registered driver keeps its connection
\* handle.
EntryAfterConnect_KeepHandle(driverId, loc) ==
    [socketId |-> IF MapHas(connectedUsers, driverId)
                  THEN MapGet(connectedUsers, driverId).socketId
                  ELSE NoSocket,
     location |-> loc, role |-> "driver"]

\* driverData = { driverId, location: { lat, lng }, role: 'driver', status, ... }:
\* the entry the endpoint stores has no socketId
EntryAfterConnect(driverId, loc) ==
    [socketId |-> NoSocket, location |-> loc, role |-> "driver"]

(* POST /api/drivers/connect: the three validations answer 400 before       *)
(* anything is written                                                      *)
ApiDriverConnect(driverId, loc, status) ==
    /\ Idle
    /\ IF \/ driverId = NoId \/ loc.lat = Undefined \/ loc.lng = Undefined
          \/ ~ValidCoordinates(loc)
          \/ StatusOrDefault(status) \notin {"online", "offline"}
       THEN /\ res' = "400"
            /\ sent' = <<>>
            /\ feed' = <<>>
            /\ UNCHANGED <<connectedUsers, activeDrivers>>
       ELSE /\ connectedUsers' = MapSet(connectedUsers, driverId,
                                         EntryAfterConnect(driverId, loc))
            /\ IF StatusOrDefault(status) = "online"
               THEN /\ activeDrivers' = activeDrivers \cup {driverId}
                    /\ sent' = <<IoEmit("driversAvailable", DriverList(activeDrivers'))>>
                    /\ feed' = <<ExternalEmit("driverStatusChange",
                                     [driverId |-> driverId, status |-> "online"]),
                                 ExternalEmit("driverLocationUpdate",
                                     [driverId |-> driverId, location |-> loc])>>
               ELSE /\ activeDrivers' = activeDrivers \ {driverId}
                    /\ sent' = <<>>
                    /\ feed' = <<ExternalEmit("driverStatusChange",
                                     [driverId |-> driverId, status |-> "offline"])>>
            /\ res' = "200"
    /\ reply' = <<>>
    /\ last' = [op |-> "apiDriverConnect", driverId |-> driverId, location |-> loc,
                status |-> status]
    /\ UNCHANGED <<pendingRides, sockets, nextSocket, accepts>>
    /\ seen' = See(seen, last', sent', feed')
    /\ UNCHANGED dash

\* Variant of DriverFound: any Registry entry is found, whatever its role.
DriverFound_AnyRole(driverId) == MapHas(connectedUsers, driverId)

\* !(!driverData || driverData.role !== 'driver')
DriverFound(driverId) ==
    MapHas(connectedUsers, driverId) /\ MapGet(connectedUsers, driverId).role = "driver"

(* PUT /api/drivers/:driverId/location; lat or lng that is not a number is  *)
(* answered 400.  io.to(id) returns an object that has no `broadcast' property, so the     *)
(* branch that notifies other users throws a TypeError after the location   *)
(* was written; the catch block answers 500.                                *)
ApiDriverLocation(driverId, loc) ==
    /\ Idle
    /\ IF ~ValidCoordinates(loc)
       THEN /\ res' = "400"
            /\ feed' = <<>>
            /\ UNCHANGED connectedUsers
       ELSE IF ~DriverFound(driverId)
       THEN /\ res' = "404"
            /\ feed' = <<>>
            /\ UNCHANGED connectedUsers
       ELSE LET driverData == MapGet(connectedUsers, driverId) IN
            /\ connectedUsers' = MapSet(connectedUsers, driverId,
                                        [driverData EXCEPT !.location = loc])
            /\ IF driverId \in activeDrivers /\ driverData.socketId # NoSocket
               THEN /\ res' = "500"
                    /\ feed' = <<>>
               ELSE /\ res' = "200"
                    /\ feed' = IF driverId \in activeDrivers
                               THEN <<ExternalEmit("driverLocationUpdate",
                                        [driverId |-> driverId, location |-> loc])>>
                               ELSE <<>>
    /\ sent' = <<>>
    /\ reply' = <<>>
    /\ last' = [op |-> "apiDriverLocation", driverId |-> driverId, location |-> loc]
    /\ UNCHANGED <<activeDrivers, pendingRides, sockets, nextSocket, accepts>>
    /\ seen' = See(seen, last', sent', feed')
    /\ UNCHANGED dash

\* x[0].toFixed(4) or x[1].toFixed(4) throws a TypeError: the element is
\* not a number
FormatThrows(x) == ~IsNumber(x[1]) \/ ~IsNumber(x[2])

(* POST /api/rides/notify-driver; withLocation: the body has                *)
(* clientLocation.  A missing field is answered 400, a driver that is not   *)
(* available or not connected 404; a TypeError of toFixed, thrown after the *)
(* ride was stored, is caught and answered 500.                             *)
ApiNotifyDriver(rideId, driverId, clientId, in, withLocation) ==
    /\ Idle
    /\ IF \/ rideId = NoId \/ driverId = NoId \/ clientId = NoId
          \/ in.pickupLocation = MissingPair
          \/ in.destinationLocation = MissingPair
       THEN /\ res' = "400"
            /\ sent' = <<>>
            /\ UNCHANGED <<pendingRides, accepts>>
       ELSE IF \/ driverId \notin activeDrivers
               \/ ~MapHas(connectedUsers, driverId)
               \/ MapGet(connectedUsers, driverId).socketId = NoSocket
       THEN /\ res' = "404"
            /\ sent' = <<>>
            /\ UNCHANGED <<pendingRides, accepts>>
       ELSE /\ pendingRides' = MapSet(pendingRides, rideId,
                  [NewRide(rideId, clientId, in) EXCEPT
                     !.clientLocation = IF withLocation THEN in.location
                                                        ELSE in.pickupLocation])
            /\ accepts' = [accepts EXCEPT ![rideId] = NoHistory]
            /\ IF FormatThrows(in.pickupLocation) \/ FormatThrows(in.destinationLocation)
               THEN /\ sent' = <<>>
                    /\ res' = "500"
               ELSE /\ sent' = <<ToEmit(MapGet(connectedUsers, driverId).socketId,
                                        "rideRequest", RideData(rideId, clientId, in))>>
                    /\ res' = "200"
    /\ feed' = <<>>
    /\ reply' = <<>>
    /\ last' = [op |-> "apiNotifyDriver", rideId |-> rideId, driverId |-> driverId,
                clientId |-> clientId, input |-> in]
    /\ UNCHANGED <<connectedUsers, activeDrivers, sockets, nextSocket>>
    /\ seen' = See(seen, last', sent', feed')
    /\ UNCHANGED dash

----------------------------------------------------------------------------
(* The DriverDashboard component (the driver's browser).  dash holds its    *)
(* React state: isOnline and currentRide (driverStatus), availableRides     *)
(* (the ids of the listed rides); geolocation tells whether the browser has *)
(* navigator.geolocation; listening tells whether the socket of the last    *)
(* effect run has the rideRequest and rideCancelled listeners; open counts  *)
(* the sockets the component created and did not disconnect; event is the   *)
(* last thing that happened to the component.                               *)

serverVars == <<connectedUsers, activeDrivers, pendingRides, sockets, nextSocket,
                last, sent, feed, reply, res, accepts, seen>>

\* prev.filter(ride => ride.id !== rideId)
WithoutRide(rides, rideId) == SelectSeq(rides, LAMBDA id : id # rideId)

\* One run of the effect, after the cleanup of the previous run: it opens a
\* new socket.  With navigator.geolocation the body sends the position and
\* returns the cleanup of the position watch, so the two listeners are never
\* registered and the cleanup leaves the socket open; without, the listeners
\* are registered and the cleanup disconnects the socket.
UseEffect(d) ==
    [d EXCEPT !.listening = ~d.geolocation,
              !.open = IF d.geolocation THEN d.open + 1 ELSE 1]

\* the effect re-runs when isOnline or currentRide changed
Rerender(old, new) ==
    IF new.isOnline # old.isOnline \/ new.currentRide # old.currentRide
    THEN UseEffect(new) ELSE new

\* the effect can run once more within the bound on open sockets
CanRerun == dash.geolocation => dash.open < MaxOpen

(* the component mounts in a browser with or without navigator.geolocation  *)
Mount(geo) ==
    /\ ~dash.mounted
    /\ dash' = UseEffect([NoDashboard EXCEPT !.mounted = TRUE, !.geolocation = geo,
                                             !.event = [op |-> "mount"]])
    /\ UNCHANGED serverVars

(* toggleOnlineStatus                                                       *)
ToggleOnlineStatus ==
    /\ dash.mounted /\ CanRerun
    /\ LET newStatus == ~dash.isOnline
           new == [dash EXCEPT
                     !.isOnline = newStatus,
                     !.availableRides = IF newStatus THEN @ ELSE <<>>,
                     !.event = [op |-> "toggleOnlineStatus",
                                emit |-> IF newStatus THEN "driverOnline"
                                                      ELSE "driverOffline"]]
       IN dash' = Rerender(dash, new)
    /\ UNCHANGED serverVars

(* a rideRequest event for ride id r arrives at the socket of the last      *)
(* effect run: newSocket.on('rideRequest', ...), if it was registered       *)
OnRideRequest(r) ==
    /\ dash.mounted /\ Len(dash.availableRides) < MaxShown
    /\ dash' = [dash EXCEPT
                  !.availableRides =
                      IF dash.listening /\ dash.isOnline /\ dash.currentRide = "none"
                      THEN Append(@, r) ELSE @,
                  !.event = [op |-> "rideRequest", rideId |-> r]]
    /\ UNCHANGED serverVars

(* a rideCancelled event for ride id r arrives at that socket:              *)
(* newSocket.on('rideCancelled', ...), if it was registered                 *)
OnRideCancelled(r) ==
    /\ dash.mounted /\ CanRerun
    /\ LET new == [dash EXCEPT
                     !.availableRides = IF dash.listening THEN WithoutRide(@, r) ELSE @,
                     !.currentRide = IF dash.listening /\ @ = r THEN "none" ELSE @,
                     !.event = [op |-> "rideCancelled", rideId |-> r]]
       IN dash' = Rerender(dash, new)
    /\ UNCHANGED serverVars

(* handleAcceptRide(ride), for a ride of the list                           *)
HandleAcceptRide(r) ==
    /\ dash.mounted /\ CanRerun
    /\ \E i \in 1..Len(dash.availableRides) : dash.availableRides[i] = r
    /\ LET new == [dash EXCEPT
                     !.currentRide = r,
                     !.availableRides = WithoutRide(@, r),
                     !.event = [op |-> "handleAcceptRide", rideId |-> r,
                                emit |-> "acceptRide"]]
       IN dash' = Rerender(dash, new)
    /\ UNCHANGED serverVars

(* handleRejectRide(ride), for a ride of the list                           *)
HandleRejectRide(r) ==
    /\ dash.mounted
    /\ \E i \in 1..Len(dash.availableRides) : dash.availableRides[i] = r
    /\ dash' = [dash EXCEPT
                  !.availableRides = WithoutRide(@, r),
                  !.event = [op |-> "handleRejectRide", rideId |-> r,
                             emit |-> "rejectRide"]]
    /\ UNCHANGED serverVars

(* handleCompleteRide: nothing without a current ride                       *)
HandleCompleteRide ==
    /\ dash.mounted /\ CanRerun
    /\ dash.currentRide # "none"
    /\ LET new == [dash EXCEPT
                     !.currentRide = "none",
                     !.event = [op |-> "handleCompleteRide", emit |-> "completeRide"]]
       IN dash' = Rerender(dash, new)
    /\ UNCHANGED serverVars

----------------------------------------------------------------------------
\* One step of the server.  The event payloads are drawn from: U, the ids of
\* the Registry and Availability events; L, their locations; R, the ride ids;
\* I, the ride inputs; D and C, the driver and client ids of the ride events.
Step(U, L, R, I, D, C) ==
    \/ Flush
    \/ Connect
    \/ \E s \in SocketIds, u \in U, loc \in L, role \in Roles :
          UpdateLocation(s, u, loc, role)
    \/ \E u \in U : DriverOnline(u)
    \/ \E u \in U : DriverOffline(u)
    \/ \E r \in R, u \in C, in \in I : RequestRide(r, u, in)
    \/ \E r \in R, d \in D, c \in C : AcceptRide(r, d, c)
    \/ \E r \in R, d \in D : RejectRide(r, d)
    \/ \E r \in R, u \in C : CancelRide(r, u)
    \/ \E r \in R, d \in D, c \in C : CompleteRide(r, d, c)
    \/ \E s \in SocketIds : Disconnect(s)
    \/ \E m \in ExtIds : ExtConnect(m)
    \/ \E m \in ExtIds, d \in U : RequestDriverLocation(m, d)
    \/ \E m \in ExtIds : ExtDisconnect(m)
    \/ \E d \in U, loc \in L, st \in {"online", "offline"} : ApiDriverConnect(d, loc, st)
    \/ \E d \in U, loc \in L : ApiDriverLocation(d, loc)
    \/ \E r \in R, d \in D, c \in C, in \in I, w \in BOOLEAN :
          ApiNotifyDriver(r, d, c, in, w)

\* Every id as sender, driver and client of the ride events, both ride
\* inputs, with one ride id and one location.
Next == Step(UserIds, {OneLocation}, {"R1"}, RideInputs, UserIds, UserIds)

Spec == Init /\ [][Next]_vars

\* Both locations, with one ride id, one ride input and the ride events sent
\* by driver D1 and client C1.
NextLocations == Step(UserIds, Locations, {"R1"}, {OneInput}, {"D1"}, {"C1"})

SpecLocations == Init /\ [][NextLocations]_vars

\* Both ride ids, with one location, one ride input and the ride events
\* sent by driver D1 and client C1.
NextRides == Step(UserIds, {OneLocation}, RideIds, {OneInput}, {"D1"}, {"C1"})

SpecRides == Init /\ [][NextRides]_vars

\* Both ride ids, both ride inputs and both ids as client of the ride
\* events, with one location and the Registry and Availability events of D1.
NextRequests == Step({"D1"}, {OneLocation}, RideIds, RideInputs, {"D1"}, UserIds)

SpecRequests == Init /\ [][NextRequests]_vars

\* Requests whose payload lacks a field or carries a value of the wrong type.
BadRequests ==
    \/ \E s \in SocketIds, loc \in BadLocations : UpdateLocation(s, "D1", loc, "driver")
    \/ \E d \in {"D1", NoId}, loc \in BadLocations \cup {OneLocation},
          st \in {"online", "undefined", "busy"} : ApiDriverConnect(d, loc, st)
    \/ \E d \in UserIds, loc \in BadLocations : ApiDriverLocation(d, loc)
    \/ \E r \in {"R1", NoId}, in \in BadRideInputs \cup {OneInput} :
          ApiNotifyDriver(r, "D1", "C1", in, FALSE)

\* One ride id, location and ride input, the ride events sent by driver D1
\* and client C1, and the requests with bad payloads.
NextInputs ==
    \/ Step(UserIds, {OneLocation}, {"R1"}, {OneInput}, {"D1"}, {"C1"})
    \/ BadRequests

SpecInputs == Init /\ [][NextInputs]_vars

\* The same server with the history recorded: one ride id, location and ride
\* input, participant D1 alone, the ride events naming driver D1 and client C1.
InitHistory ==
    /\ Booted
    /\ seen = NothingSeen(TRUE)
    /\ dash = NoDashboard

NextHistory == Step({"D1"}, {OneLocation}, {"R1"}, {OneInput}, {"D1"}, {"C1"})

SpecHistory == InitHistory /\ [][NextHistory]_vars

\* One DriverDashboard beside an idle server; the rideRequest and
\* rideCancelled events that reach its socket carry any ride id.
NextDashboard ==
    \/ \E geo \in BOOLEAN : Mount(geo)
    \/ ToggleOnlineStatus
    \/ \E r \in RideIds : OnRideRequest(r)
    \/ \E r \in RideIds : OnRideCancelled(r)
    \/ \E r \in RideIds : HandleAcceptRide(r)
    \/ \E r \in RideIds : HandleRejectRide(r)
    \/ HandleCompleteRide

SpecDashboard == Init /\ [][NextDashboard]_vars

----------------------------------------------------------------------------
(* What the statements below are written with.                              *)

\* id has a Registry entry whose connection handle is an open connection
Live(id) ==
    MapHas(connectedUsers, id) /\ MapGet(connectedUsers, id).socketId \in sockets

SocketOf(id) == MapGet(connectedUsers, id).socketId

\* the positions of msgs that are an ev notification delivered to sock
Received(msgs, sock, ev) ==
    {i \in 1..Len(msgs) : msgs[i].ev = ev /\ sock \in msgs[i].rcpt}

\* the positions of msgs that are an ev notification delivered to anybody
Delivered(msgs, ev) ==
    {i \in 1..Len(msgs) : msgs[i].ev = ev /\ msgs[i].rcpt # {}}

\* r was created by a requestRide and no creation, cancellation or acceptance
\* of r was processed since
JustRequested(r) == accepts[r].tracked /\ accepts[r].first = "none"

----------------------------------------------------------------------------
(* C1 (as stated): when acceptRide(r, D) is processed for a ride r that a   *)
(* requestRide created and nothing touched since, r is gone from the        *)
(* Ledger afterwards and the client that requested r, if it has a live      *)
(* Registry entry, received exactly one rideAccepted{rideId: r,             *)
(* driverId: D}.                                                            *)
C1_RequesterNotified ==
    [][ (last'.op = "acceptRide" /\ JustRequested(last'.rideId)) =>
          LET r == last'.rideId
              d == last'.driverId
              q == MapGet(pendingRides, r).clientId
          IN /\ MapHas(pendingRides, r)
             /\ ~MapHas(pendingRides', r)
             /\ Live(q) =>
                  /\ Cardinality(Received(sent', SocketOf(q), "rideAccepted")) = 1
                  /\ \A i \in Received(sent', SocketOf(q), "rideAccepted") :
                        sent'[i].data = [rideId |-> r, driverId |-> d] ]_vars

(* C1 (amended): when acceptRide(r, D, clientId) is processed for a ride r  *)
(* that a requestRide created and nothing touched since, r is gone from the *)
(* Ledger afterwards, and the participant named by the clientId of the      *)
(* acceptRide payload, if it has a live Registry entry, received exactly    *)
(* one rideAccepted{rideId: r, driverId: D}; nobody else received one.      *)
(* The requesting client is that participant only when the payload names    *)
(* it.                                                                      *)
C1_PayloadClientNotified ==
    [][ (last'.op = "acceptRide" /\ JustRequested(last'.rideId)) =>
          LET r == last'.rideId
              d == last'.driverId
              c == last'.clientId
          IN /\ MapHas(pendingRides, r)
             /\ ~MapHas(pendingRides', r)
             /\ Live(c) =>
                  /\ Cardinality(Received(sent', SocketOf(c), "rideAccepted")) = 1
                  /\ \A i \in Received(sent', SocketOf(c), "rideAccepted") :
                        sent'[i].data = [rideId |-> r, driverId |-> d]
             /\ \A i \in Delivered(sent', "rideAccepted") :
                  Live(c) /\ sent'[i].rcpt = {SocketOf(c)} ]_vars

\* C1 witness: an acceptRide of a requested ride was just processed, the
\* ride is gone and the connected client named in the payload got its one
\* rideAccepted.
C1_Witness ==
    /\ last.op = "acceptRide"
    /\ accepts[last.rideId].tracked
    /\ accepts[last.rideId].first = last.driverId
    /\ accepts[last.rideId].fed = <<last.driverId>>
    /\ ~MapHas(pendingRides, last.rideId)
    /\ Live(last.clientId)
    /\ Cardinality(Received(sent, SocketOf(last.clientId), "rideAccepted")) = 1

----------------------------------------------------------------------------
(* C2: an acceptRide for a ride id that is not in the Ledger changes        *)
(* neither Registry, Availability Set nor Ledger and emits nothing, to no   *)
(* participant and not to the Monitoring Feed; and once an acceptRide of a  *)
(* requested ride was processed, a further acceptRide for the same id finds *)
(* the ride absent, so it is such a no-op.                                  *)
C2_AcceptNotFoundIsNoOp ==
    [][ last'.op = "acceptRide" =>
          LET r == last'.rideId IN
          /\ (accepts[r].tracked /\ accepts[r].first # "none") => ~MapHas(pendingRides, r)
          /\ ~MapHas(pendingRides, r) =>
               /\ connectedUsers' = connectedUsers
               /\ activeDrivers' = activeDrivers
               /\ pendingRides' = pendingRides
               /\ sent' = <<>>
               /\ feed' = <<>>
               /\ reply' = <<>> ]_vars

\* C2 witness: a second acceptRide of an accepted ride was just processed
\* while another ride is pending, and it emitted nothing.
C2_Witness ==
    /\ last.op = "acceptRide"
    /\ accepts[last.rideId].tracked
    /\ accepts[last.rideId].fed # <<>>
    /\ sent = <<>>
    /\ feed = <<>>
    /\ pendingRides # <<>>
    /\ activeDrivers # {}

----------------------------------------------------------------------------
(* C3: for a ride created by requestRide and, since then, neither created   *)
(* again nor cancelled, however many acceptRide events were processed for   *)
(* it: the Monitoring Feed got no rideAccepted before the first of them and *)
(* exactly one afterwards, naming the driver of the first one processed;    *)
(* an acceptRide processed later neither emits anything nor leaves the ride *)
(* in the Ledger.                                                           *)
C3_OneAcceptanceWins ==
    \A r \in RideIds :
        accepts[r].tracked =>
            /\ accepts[r].first = "none" => (accepts[r].fed = <<>> /\ MapHas(pendingRides, r))
            /\ accepts[r].first # "none" =>
                 /\ accepts[r].fed = <<accepts[r].first>>
                 /\ ~MapHas(pendingRides, r)
                 /\ (last.op = "acceptRide" /\ last.rideId = r /\ feed # <<>>) =>
                       /\ last.driverId = accepts[r].first
                       /\ Len(feed) = 1
                       /\ feed[1].ev = "rideAccepted"
                       /\ feed[1].data.rideId = r
                       /\ feed[1].data.driverId = accepts[r].first

\* C3 witness: a driver other than the one that accepted first just sent
\* acceptRide for the same ride, without effect.
C3_Witness ==
    /\ last.op = "acceptRide"
    /\ accepts[last.rideId].tracked
    /\ accepts[last.rideId].first # "none"
    /\ accepts[last.rideId].first # last.driverId
    /\ accepts[last.rideId].fed = <<accepts[last.rideId].first>>
    /\ feed = <<>>

----------------------------------------------------------------------------
(* C4: whenever no handler is running, the Ledger holds at most one record  *)
(* per ride id, each record is stored under its own ride id, and every      *)
(* record has status pending.                                               *)
C4_LedgerPendingUnique ==
    /\ \A i, j \in 1..Len(pendingRides) :
          pendingRides[i].key = pendingRides[j].key => i = j
    /\ \A i \in 1..Len(pendingRides) :
          /\ pendingRides[i].val.rideId = pendingRides[i].key
          /\ pendingRides[i].val.status = "pending"

\* C4 witness: both ride ids are pending and the one stored first was just
\* requested again.
C4_Witness ==
    /\ Len(pendingRides) = 2
    /\ last.op = "requestRide"
    /\ pendingRides[1].key = last.rideId

----------------------------------------------------------------------------
(* C5: an updateLocation(id, lat, lng) leaves the Registry with exactly one *)
(* entry for id whose location is (lat, lng), and with every other id's     *)
(* entry as it was (present or absent, same location, handle and role).     *)
(* Over a sequence of updateLocation events the stored location of an id is *)
(* therefore that of the last update applied for it.                        *)
C5_LocationIsLastUpdate ==
    [][ last'.op = "updateLocation" =>
          LET u == last'.userId IN
          /\ Cardinality({i \in 1..Len(connectedUsers') : connectedUsers'[i].key = u}) = 1
          /\ MapGet(connectedUsers', u).location.lat = last'.location.lat
          /\ MapGet(connectedUsers', u).location.lng = last'.location.lng
          /\ \A v \in UserIds \ {u} :
                /\ MapHas(connectedUsers', v) = MapHas(connectedUsers, v)
                /\ MapHas(connectedUsers, v) =>
                      MapGet(connectedUsers', v) = MapGet(connectedUsers, v) ]_vars

\* C5 witness: an update was just applied for an id while another id is
\* registered at a different location.
C5_Witness ==
    /\ last.op = "updateLocation"
    /\ Len(connectedUsers) = 2
    /\ connectedUsers[1].val.location # connectedUsers[2].val.location
    /\ MapGet(connectedUsers, last.userId).location = last.location
    /\ connectedUsers[1].key = last.userId

----------------------------------------------------------------------------
(* C6: right after driverOnline(d), d is in the Availability Set, the one   *)
(* driversAvailable broadcast of the event went to every open connection    *)
(* and lists d, and the Monitoring Feed got exactly driverStatusChange{d,    *)
(* online}; also when d has no Registry entry (never sent a location).      *)
C6_OnlineAddsAndAnnounces ==
    last.op = "driverOnline" =>
        /\ last.userId \in activeDrivers
        /\ Len(sent) = 1
        /\ sent[1].ev = "driversAvailable"
        /\ last.userId \in sent[1].data
        /\ sent[1].rcpt = sockets
        /\ feed = <<[ev |-> "driverStatusChange",
                     data |-> [driverId |-> last.userId, status |-> "online"]]>>

\* C6 witness: driverOnline was just processed for an id without a Registry
\* entry.
C6_Witness ==
    /\ last.op = "driverOnline"
    /\ ~MapHas(connectedUsers, last.userId)
    /\ last.userId \in activeDrivers
    /\ connectedUsers # <<>>

----------------------------------------------------------------------------
(* C7: driverOffline(d) removes d from the Availability Set and nothing     *)
(* else, and the driversAvailable list it broadcasts is the set without d.  *)
C7_OfflineRemovesOnlyD ==
    [][ last'.op = "driverOffline" =>
          /\ last'.userId \notin activeDrivers'
          /\ activeDrivers' = activeDrivers \ {last'.userId}
          /\ Len(sent') = 1
          /\ sent'[1].ev = "driversAvailable"
          /\ last'.userId \notin sent'[1].data
          /\ sent'[1].data = activeDrivers \ {last'.userId} ]_vars

\* C7 witness: driverOffline was just processed and another driver is still
\* a member and is listed in the broadcast.
C7_Witness ==
    /\ last.op = "driverOffline"
    /\ last.userId \notin activeDrivers
    /\ activeDrivers # {}
    /\ Len(sent) = 1
    /\ sent[1].data = activeDrivers
    /\ MapHas(connectedUsers, last.userId)

----------------------------------------------------------------------------
(* C8 (as stated, for the drivers of the only connection there has been):   *)
(* while one connection only was ever opened, every id that driverOnline,   *)
(* updateLocation or completeRide put in the Availability Set came online   *)
(* over it; the driver-connect endpoint leaves a Registry entry without a   *)
(* connection handle.  When that connection closes, no id stays in the      *)
(* Availability Set except ids holding such an entry.                       *)
C8_CloseRemovesOnlineDriver ==
    [][ (last'.op = "disconnect" /\ nextSocket = 2) =>
          \A d \in activeDrivers' :
             /\ MapHas(connectedUsers', d)
             /\ MapGet(connectedUsers', d).socketId = NoSocket ]_vars

----------------------------------------------------------------------------
\* d was sent a rideCancelled for ride r by the handler that just ran
GotCancel(d, r) ==
    /\ MapHas(connectedUsers, d)
    /\ \E i \in Received(sent', SocketOf(d), "rideCancelled") :
          sent'[i].data = [rideId |-> r]

----------------------------------------------------------------------------
\* the snapshot lists the Ledger: one entry per pending ride, with its fields
SnapshotListsLedger(data) ==
    /\ Len(data.pendingRides) = Len(pendingRides)
    /\ \A i \in 1..Len(pendingRides) :
          LET ride == pendingRides[i].val
              e == data.pendingRides[i]
          IN /\ e.rideId = pendingRides[i].key
             /\ e.clientId = ride.clientId
             /\ e.pickupLocation = ride.pickupLocation
             /\ e.destinationLocation = ride.destinationLocation
             /\ e.status = "pending"

(* C10 (as stated): a connecting subscriber is sent one initialData whose   *)
(* drivers list has an entry for every member of the Availability Set and   *)
(* whose pendingRides list is the Ledger.                                   *)
C10_SnapshotHasEveryAvailableDriver ==
    last.op = "extConnection" =>
        /\ Len(reply) = 1
        /\ reply[1].ev = "initialData"
        /\ reply[1].to = last.socket
        /\ \A d \in activeDrivers : \E e \in reply[1].data.drivers : e.driverId = d
        /\ SnapshotListsLedger(reply[1].data)

(* C10 (amended): a connecting subscriber is sent one initialData whose     *)
(* drivers list has exactly one entry for every member of the Availability  *)
(* Set that has a Registry entry, carrying the location stored there, and   *)
(* no other entry (members without a Registry entry are left out), and      *)
(* whose pendingRides list is the Ledger.  After driverOnline("D1") and     *)
(* requestRide("R1") it lists R1, and lists D1 only if D1 has sent a        *)
(* location.                                                                *)
C10_SnapshotHasRegisteredAvailableDrivers ==
    last.op = "extConnection" =>
        /\ Len(reply) = 1
        /\ reply[1].ev = "initialData"
        /\ reply[1].to = last.socket
        /\ \A d \in activeDrivers :
              MapHas(connectedUsers, d) =>
                 /\ [driverId |-> d, location |-> MapGet(connectedUsers, d).location]
                       \in reply[1].data.drivers
                 /\ Cardinality({e \in reply[1].data.drivers : e.driverId = d}) = 1
        /\ \A e \in reply[1].data.drivers :
              e.driverId \in activeDrivers /\ MapHas(connectedUsers, e.driverId)
        /\ SnapshotListsLedger(reply[1].data)
        /\ sent = <<>>
        /\ feed = <<>>

\* C10 witness: a subscriber just connected while D1 is available with a
\* stored location, another available id has no Registry entry, and both
\* rides are pending.
C10_Witness ==
    /\ last.op = "extConnection"
    /\ "D1" \in activeDrivers
    /\ MapHas(connectedUsers, "D1")
    /\ \E d \in activeDrivers : ~MapHas(connectedUsers, d)
    /\ Len(pendingRides) = 2
    /\ Len(reply) = 1
    /\ Cardinality(reply[1].data.drivers) = 1
    /\ Len(reply[1].data.pendingRides) = 2

----------------------------------------------------------------------------
(* C11: driverOffline(d) for a d that is not in the Availability Set leaves *)
(* Availability Set, Registry and Ledger as they were and still emits the   *)
(* driversAvailable broadcast (the unchanged list, to every open            *)
(* connection) and driverStatusChange{d, offline} to the Monitoring Feed;   *)
(* and every driverOffline(d) ends with d absent, so a second one finds d   *)
(* absent and yields the state the first one left.                          *)
C11_OfflineTwiceIsOnce ==
    [][ last'.op = "driverOffline" =>
          /\ last'.userId \notin activeDrivers'
          /\ last'.userId \notin activeDrivers =>
                /\ activeDrivers' = activeDrivers
                /\ connectedUsers' = connectedUsers
                /\ pendingRides' = pendingRides
                /\ sent' = <<[ev |-> "driversAvailable", data |-> activeDrivers,
                              rcpt |-> sockets]>>
                /\ feed' = <<[ev |-> "driverStatusChange",
                              data |-> [driverId |-> last'.userId,
                                        status |-> "offline"]]>> ]_vars

\* C11 witness: driverOffline was just processed and left its id absent (as
\* it does when the id was absent before), while another driver is available
\* and a ride is pending.
C11_Witness ==
    /\ last.op = "driverOffline"
    /\ last.userId \notin activeDrivers
    /\ activeDrivers # {}
    /\ pendingRides # <<>>
    /\ connectedUsers # <<>>
    /\ Len(sent) = 1 /\ sent[1].data = activeDrivers
    /\ Len(feed) = 1 /\ feed[1].data.status = "offline"

----------------------------------------------------------------------------
(* C12 (as stated, the part about clients): in every reachable state no id  *)
(* that the Registry holds with role client is a member of the              *)
(* Availability Set.                                                        *)
C12_NoClientIsAvailable ==
    \A d \in activeDrivers :
        MapHas(connectedUsers, d) => MapGet(connectedUsers, d).role = "driver"

----------------------------------------------------------------------------
(* C13 (as stated): in every step, an id that is in the Registry before and *)
(* after the step has the same role before and after; no step both removes  *)
(* an entry and creates it again.                                           *)
C13_RoleNeverChanges ==
    [][ \A u \in UserIds :
          (MapHas(connectedUsers, u) /\ MapHas(connectedUsers', u)) =>
              MapGet(connectedUsers', u).role = MapGet(connectedUsers, u).role ]_vars

----------------------------------------------------------------------------
(* C14 (as stated): right after a connection has closed, no Registry entry  *)
(* has that connection as its connection handle.                            *)
C14_ClosedHandleIsGone ==
    last.op = "disconnect" =>
        \A i \in 1..Len(connectedUsers) : connectedUsers[i].val.socketId # last.socket

----------------------------------------------------------------------------
\* the available drivers whose Registry entry holds an open connection
ReachableDrivers == {d \in activeDrivers : Live(d)}

----------------------------------------------------------------------------
\* the handler that just ran emitted driverStatusChange{d, status} to the feed
StatusFed(d, status) ==
    \E i \in 1..Len(feed') :
        /\ feed'[i].ev = "driverStatusChange"
        /\ feed'[i].data = [driverId |-> d, status |-> status]

(* C16 (as stated): in every step, each id the step adds to the             *)
(* Availability Set gets a driverStatusChange{id, online} on the Monitoring *)
(* Feed in that step, and each id the step removes gets a                   *)
(* driverStatusChange{id, offline}.                                         *)
C16_MembershipChangesAreFed ==
    [][ /\ \A d \in activeDrivers' \ activeDrivers : StatusFed(d, "online")
        /\ \A d \in activeDrivers \ activeDrivers' : StatusFed(d, "offline") ]_vars

----------------------------------------------------------------------------
\* the handler that just ran emitted an ev event about ride r to the feed
RideFed(r, evs) ==
    \E i \in 1..Len(feed') : feed'[i].ev \in evs /\ feed'[i].data.rideId = r

(* C17 (as stated): in every step, each ride id the step inserts in the     *)
(* Ledger gets a rideCreated for it on the Monitoring Feed in that step,    *)
(* and each ride id the step removes from the Ledger gets a feed event for  *)
(* it in that step.                                                         *)
C17_LedgerChangesAreFed ==
    [][ \A r \in RideIds :
          /\ (~MapHas(pendingRides, r) /\ MapHas(pendingRides', r))
                => RideFed(r, {"rideCreated"})
          /\ (MapHas(pendingRides, r) /\ ~MapHas(pendingRides', r))
                => RideFed(r, {"rideCreated", "rideAccepted", "rideCompleted",
                               "rideCancelled"}) ]_vars

----------------------------------------------------------------------------
(* C18: requestDriverLocation(driverId) from a monitoring subscriber is     *)
(* answered in the handler itself with exactly one message, to that         *)
(* subscriber: driverLocation{driverId, location} with the location the     *)
(* Registry stores for the id when it has an entry for it (whatever its     *)
(* role), driverNotFound{driverId} otherwise.  Nothing is emitted to        *)
(* participants or to the whole feed, and Registry, Availability Set and    *)
(* Ledger stay as they were.                                                *)
C18_LocationPullAnswersOnce ==
    [][ last'.op = "requestDriverLocation" =>
          LET d == last'.driverId IN
          /\ Len(reply') = 1
          /\ reply'[1].to = last'.socket
          /\ MapHas(connectedUsers, d) =>
                /\ reply'[1].ev = "driverLocation"
                /\ reply'[1].data = [driverId |-> d,
                                     location |-> MapGet(connectedUsers, d).location]
          /\ ~MapHas(connectedUsers, d) =>
                /\ reply'[1].ev = "driverNotFound"
                /\ reply'[1].data = [driverId |-> d]
          /\ sent' = <<>>
          /\ feed' = <<>>
          /\ connectedUsers' = connectedUsers
          /\ activeDrivers' = activeDrivers
          /\ pendingRides' = pendingRides ]_vars

\* C18 witness: a subscriber just pulled the location of an id registered
\* with role client, which is not in the Availability Set, while another id
\* is registered at a different location, and got that id's location.
C18_Witness ==
    /\ last.op = "requestDriverLocation"
    /\ Len(connectedUsers) = 2
    /\ connectedUsers[1].val.location # connectedUsers[2].val.location
    /\ MapHas(connectedUsers, last.driverId)
    /\ MapGet(connectedUsers, last.driverId).role = "client"
    /\ last.driverId \notin activeDrivers
    /\ Len(reply) = 1
    /\ reply[1].ev = "driverLocation"
    /\ reply[1].data.location = MapGet(connectedUsers, last.driverId).location

----------------------------------------------------------------------------
(* C19: the close of a participant's connection leaves the Ledger exactly   *)
(* as it was: the same rides, in the same order, with the same fields and   *)
(* status pending, also the rides whose client was registered through the   *)
(* closing connection.                                                      *)
C19_CloseKeepsLedger ==
    [][ last'.op = "disconnect" =>
          /\ pendingRides' = pendingRides
          /\ \A i \in 1..Len(pendingRides') :
                pendingRides'[i].val.status = "pending" ]_vars

\* C19 witness: the only connection there has been just closed, so the two
\* rides that are pending were requested over it, and they are still
\* pending although their client has no Registry entry any more.
C19_Witness ==
    /\ last.op = "disconnect"
    /\ nextSocket = 2
    /\ sockets = {}
    /\ Len(pendingRides) = 2
    /\ \A i \in 1..2 : /\ pendingRides[i].val.status = "pending"
                        /\ ~MapHas(connectedUsers, pendingRides[i].val.clientId)

----------------------------------------------------------------------------
(* C20: in every step, a ride that is pending before the step is still in   *)
(* the Ledger with status pending after it, unless the step is the          *)
(* processing of an acceptRide or a cancelRide naming that ride: flushing   *)
(* output, connections, location updates, online and offline signals,       *)
(* rejectRide, completeRide (also of that ride), requests for other rides,  *)
(* monitoring requests, REST calls and disconnects all keep it.  The server  *)
(* has no timer, so time alone is no step at all.                           *)
C20_PendingUntilAcceptOrCancel ==
    [][ \A r \in RideIds :
          (/\ MapHas(pendingRides, r)
           /\ ~(last'.op \in {"acceptRide", "cancelRide"} /\ last'.rideId = r))
          => /\ MapHas(pendingRides', r)
             /\ MapGet(pendingRides', r).status = "pending" ]_vars

\* C20 witness: completeRide was just processed for a ride that is pending,
\* and the ride is still pending, as is the other ride.
C20_Witness ==
    /\ last.op = "completeRide"
    /\ MapHas(pendingRides, last.rideId)
    /\ MapGet(pendingRides, last.rideId).status = "pending"
    /\ Len(pendingRides) = 2

----------------------------------------------------------------------------
\* the request that was just handled was refused as a client error: answered
\* 400, nothing written, nothing emitted
Refused400 ==
    /\ res' = "400"
    /\ connectedUsers' = connectedUsers
    /\ activeDrivers' = activeDrivers
    /\ pendingRides' = pendingRides
    /\ sent' = <<>>
    /\ feed' = <<>>
    /\ reply' = <<>>

----------------------------------------------------------------------------
(* C22 (as stated): whenever POST /api/rides/notify-driver answers with an  *)
(* error status, the Ledger is as it was and no rideRequest was sent; and a *)
(* body that lacks a required field, or whose pickupLocation or             *)
(* destinationLocation is not a pair of numbers, is answered with the       *)
(* client error 400.                                                        *)
C22_BadNotifyNeverApplied ==
    [][ last'.op = "apiNotifyDriver" =>
          /\ res' # "200" => (pendingRides' = pendingRides /\ sent' = <<>>)
          /\ res' \in {"200", "400", "404"} ]_vars

----------------------------------------------------------------------------
\* the request that was just handled was answered 404: nothing written,
\* nothing emitted
NotFound404 ==
    /\ res' = "404"
    /\ connectedUsers' = connectedUsers
    /\ activeDrivers' = activeDrivers
    /\ pendingRides' = pendingRides
    /\ sent' = <<>>
    /\ feed' = <<>>
    /\ reply' = <<>>

(* C23: PUT /api/drivers/:driverId/location with numeric lat and lng for an *)
(* id that has no Registry entry, or whose entry has a role other than      *)
(* driver, is answered 404 and leaves the Registry (and the other           *)
(* collections) as they were; POST /api/rides/notify-driver with all        *)
(* required fields for a driver that is not in the Availability Set, has no *)
(* Registry entry or has an entry without a connection handle is answered   *)
(* 404, leaves the Ledger as it was and sends no rideRequest.               *)
C23_UnknownParticipantIs404 ==
    [][ /\ (/\ last'.op = "apiDriverLocation"
            /\ IsNumber(last'.location.lat) /\ IsNumber(last'.location.lng)
            /\ \/ ~MapHas(connectedUsers, last'.driverId)
               \/ MapGet(connectedUsers, last'.driverId).role # "driver")
           => NotFound404
        /\ (/\ last'.op = "apiNotifyDriver"
            /\ last'.rideId # NoId
            /\ last'.input.pickupLocation # MissingPair
            /\ last'.input.destinationLocation # MissingPair
            /\ \/ last'.driverId \notin activeDrivers
               \/ ~MapHas(connectedUsers, last'.driverId)
               \/ MapGet(connectedUsers, last'.driverId).socketId = NoSocket)
           => NotFound404 ]_vars

\* C23 witness: a location update for an id registered as client was just
\* answered 404 while a driver is registered and available.
C23_Witness ==
    /\ last.op = "apiDriverLocation"
    /\ res = "404"
    /\ MapHas(connectedUsers, last.driverId)
    /\ MapGet(connectedUsers, last.driverId).role = "client"
    /\ activeDrivers # {}
    /\ Len(connectedUsers) = 2

----------------------------------------------------------------------------
(* C24: a requestRide whose rideId is already in the Ledger writes over the *)
(* record: afterwards the Ledger has exactly one record for the id, at the  *)
(* position of the old one, whose clientId, pickupLocation,                 *)
(* destinationLocation and clientLocation are those of this request and     *)
(* whose status is pending; the number of entries and the records of the    *)
(* other ride ids are as before; and the request is announced like a first  *)
(* one (rideCreated on the Monitoring Feed, no error to anybody).           *)
C24_RequestOverwrites ==
    [][ (last'.op = "requestRide" /\ MapHas(pendingRides, last'.rideId)) =>
          LET r == last'.rideId
              ride == MapGet(pendingRides', r)
          IN /\ Cardinality({i \in 1..Len(pendingRides') : pendingRides'[i].key = r}) = 1
             /\ ride.rideId = r
             /\ ride.clientId = last'.userId
             /\ ride.pickupLocation = last'.input.pickupLocation
             /\ ride.destinationLocation = last'.input.destinationLocation
             /\ ride.clientLocation = last'.input.location
             /\ ride.status = "pending"
             /\ Len(pendingRides') = Len(pendingRides)
             /\ \A i \in 1..Len(pendingRides) :
                   /\ pendingRides'[i].key = pendingRides[i].key
                   /\ pendingRides[i].key # r => pendingRides'[i] = pendingRides[i]
             /\ Len(feed') = 1
             /\ feed'[1].ev = "rideCreated"
             /\ feed'[1].data.rideId = r
             /\ feed'[1].data.clientId = last'.userId ]_vars

\* C24 witness: the ride stored first was just requested again, after the
\* other ride, by another client and with another pickup than the other
\* ride has, and its record carries the fields of this request.
C24_Witness ==
    /\ last.op = "requestRide"
    /\ Len(pendingRides) = 2
    /\ pendingRides[1].key = last.rideId
    /\ pendingRides[1].val.clientId = last.userId
    /\ pendingRides[1].val.pickupLocation = last.input.pickupLocation
    /\ pendingRides[1].val.clientLocation = last.input.location
    /\ pendingRides[2].val.clientId # last.userId
    /\ pendingRides[2].val.pickupLocation # last.input.pickupLocation

----------------------------------------------------------------------------
(* C25: completeRide(rideId, driverId, clientId) leaves the Ledger (and the *)
(* Registry) as it was, whether or not rideId is pending; afterwards        *)
(* driverId is in the Availability Set and no other membership changed;     *)
(* one driversAvailable with the updated list went to every open            *)
(* connection; and the Monitoring Feed got rideCompleted{rideId, driverId,  *)
(* clientId} followed by driverStatusChange{driverId, online}.              *)
C25_CompleteTrustsCaller ==
    [][ last'.op = "completeRide" =>
          /\ pendingRides' = pendingRides
          /\ connectedUsers' = connectedUsers
          /\ activeDrivers' = activeDrivers \cup {last'.driverId}
          /\ Cardinality({i \in 1..Len(sent') : sent'[i].ev = "driversAvailable"}) = 1
          /\ \A i \in 1..Len(sent') :
                sent'[i].ev = "driversAvailable" =>
                   /\ sent'[i].data = activeDrivers \cup {last'.driverId}
                   /\ sent'[i].rcpt = sockets
          /\ feed' = <<[ev |-> "rideCompleted",
                        data |-> [rideId |-> last'.rideId, driverId |-> last'.driverId,
                                  clientId |-> last'.clientId]],
                       [ev |-> "driverStatusChange",
                        data |-> [driverId |-> last'.driverId, status |-> "online"]]>> ]_vars

\* C25 witness: completeRide was just processed for a ride that is pending
\* and was never accepted, by a driver that has no Registry entry; the ride
\* is still pending and the driver is available.
C25_Witness ==
    /\ last.op = "completeRide"
    /\ MapHas(pendingRides, last.rideId)
    /\ JustRequested(last.rideId)
    /\ ~MapHas(connectedUsers, last.driverId)
    /\ last.driverId \in activeDrivers
    /\ Len(feed) = 2

----------------------------------------------------------------------------
(* C26: rejectRide(rideId, driverId) leaves Ledger, Registry and            *)
(* Availability Set as they were and emits nothing, to no participant, not  *)
(* to the Monitoring Feed and not to a subscriber.  The server keeps no     *)
(* trace of the rejection (the acceptance history of the ride is as it      *)
(* was), so a pending ride stays pending and an acceptRide for it, by any   *)
(* driver and also by the one that rejected, is handled as if nobody had    *)
(* rejected.                                                                *)
C26_RejectChangesNothing ==
    [][ last'.op = "rejectRide" =>
          /\ pendingRides' = pendingRides
          /\ connectedUsers' = connectedUsers
          /\ activeDrivers' = activeDrivers
          /\ accepts' = accepts
          /\ sockets' = sockets
          /\ sent' = <<>>
          /\ feed' = <<>>
          /\ reply' = <<>>
          /\ MapHas(pendingRides, last'.rideId) =>
                /\ MapHas(pendingRides', last'.rideId)
                /\ MapGet(pendingRides', last'.rideId).status = "pending" ]_vars

\* C26 witness: an available, connected driver just rejected a ride that
\* was requested and not accepted; the ride is pending and another driver
\* is available.
C26_Witness ==
    /\ last.op = "rejectRide"
    /\ MapHas(pendingRides, last.rideId)
    /\ JustRequested(last.rideId)
    /\ last.driverId \in activeDrivers
    /\ Live(last.driverId)
    /\ Cardinality(activeDrivers) = 2
    /\ sent = <<>>
    /\ feed = <<>>

----------------------------------------------------------------------------
(* C27: when acceptRide(r, D, clientId) finds r pending and clientId has no *)
(* Registry entry, or an entry without a connection handle, or an entry     *)
(* whose connection is closed, no participant connection receives anything  *)
(* from the handler, nothing is answered and nothing is kept for a retry,   *)
(* and the acceptance takes effect all the same: r is removed from the      *)
(* Ledger, Registry and Availability Set are as they were, and the          *)
(* Monitoring Feed receives exactly one event, rideAccepted for r naming D  *)
(* and clientId.                                                            *)
C27_AcceptWithoutClient ==
    [][ (/\ last'.op = "acceptRide"
         /\ MapHas(pendingRides, last'.rideId)
         /\ ~Live(last'.clientId)) =>
          /\ \A i \in 1..Len(sent') : sent'[i].rcpt = {}
          /\ reply' = <<>>
          /\ res' = "none"
          /\ ~MapHas(pendingRides', last'.rideId)
          /\ Len(pendingRides') = Len(pendingRides) - 1
          /\ connectedUsers' = connectedUsers
          /\ activeDrivers' = activeDrivers
          /\ Len(feed') = 1
          /\ feed'[1].ev = "rideAccepted"
          /\ feed'[1].data.rideId = last'.rideId
          /\ feed'[1].data.driverId = last'.driverId
          /\ feed'[1].data.clientId = last'.clientId ]_vars

\* C27 witness: an acceptRide of a requested ride was just processed and
\* fed to the Monitoring Feed while the client it names has no Registry
\* entry; connections are open and none was sent anything.
C27_Witness ==
    /\ last.op = "acceptRide"
    /\ accepts[last.rideId].tracked
    /\ accepts[last.rideId].fed = <<last.driverId>>
    /\ Len(feed) = 1
    /\ ~MapHas(connectedUsers, last.clientId)
    /\ ~MapHas(pendingRides, last.rideId)
    /\ sent = <<>>
    /\ Cardinality(sockets) = 2
    /\ connectedUsers # <<>>

----------------------------------------------------------------------------
(* C28: after an updateLocation with role driver its id is a member of the  *)
(* Availability Set, also when the id was registered and not a member       *)
(* before (as after a driverOffline): the event adds the id and changes no  *)
(* other membership.  An updateLocation with role client leaves the         *)
(* Availability Set as it was, whether or not its id is a member.           *)
C28_DriverUpdateMakesAvailable ==
    [][ last'.op = "updateLocation" =>
          /\ last'.role = "driver" =>
                /\ last'.userId \in activeDrivers'
                /\ activeDrivers' = activeDrivers \cup {last'.userId}
          /\ last'.role = "client" => activeDrivers' = activeDrivers ]_vars

\* C28 witness: an updateLocation with role driver was just processed and
\* its id is available, while the other id, also registered as a driver, is
\* not: a driver is unavailable only until its next location update.
C28_Witness ==
    /\ last.op = "updateLocation"
    /\ last.role = "driver"
    /\ activeDrivers = {last.userId}
    /\ Len(connectedUsers) = 2
    /\ \A i \in 1..2 : connectedUsers[i].val.role = "driver"

----------------------------------------------------------------------------
(* C30: an updateLocation emits to participants exactly one message, a      *)
(* userLocationUpdate carrying the id, location and role of the event,      *)
(* delivered to every open connection except the one that sent the event;   *)
(* the Monitoring Feed gets exactly one driverLocationUpdate with the id    *)
(* and location when the role is driver, and nothing when it is client.     *)
C30_UpdateIsBroadcast ==
    last.op = "updateLocation" =>
        /\ Len(sent) = 1
        /\ sent[1].ev = "userLocationUpdate"
        /\ sent[1].data = [userId |-> last.userId, location |-> last.location,
                           role |-> last.role]
        /\ sent[1].rcpt = sockets \ {last.socket}
        /\ last.role = "driver" =>
              feed = <<[ev |-> "driverLocationUpdate",
                        data |-> [driverId |-> last.userId,
                                  location |-> last.location]]>>
        /\ last.role = "client" => feed = <<>>
        /\ reply = <<>>

\* C30 witness: a client's updateLocation was just processed with two
\* connections open; the other connection got the userLocationUpdate and
\* the Monitoring Feed got nothing.
C30_Witness ==
    /\ last.op = "updateLocation"
    /\ last.role = "client"
    /\ Cardinality(sockets) = 2
    /\ Len(sent) = 1
    /\ Cardinality(sent[1].rcpt) = 1
    /\ last.socket \notin sent[1].rcpt
    /\ feed = <<>>

----------------------------------------------------------------------------
(* C29 (as stated): an updateLocation whose lat or lng is absent or is not  *)
(* a number leaves the Registry and the Availability Set as they were.      *)
C29_BadUpdateNotApplied ==
    [][ (/\ last'.op = "updateLocation"
         /\ ~(IsNumber(last'.location.lat) /\ IsNumber(last'.location.lng))) =>
          /\ connectedUsers' = connectedUsers
          /\ activeDrivers' = activeDrivers ]_vars

----------------------------------------------------------------------------
(* C31: every driversAvailable broadcast, whichever operation emits it      *)
(* (driverOnline, driverOffline, completeRide, the disconnect of a driver,  *)
(* the driver-connect endpoint), carries the complete membership of the     *)
(* Availability Set as it is after that operation's mutation: not a delta,  *)
(* not the set before the mutation.  The emissions of the operation just    *)
(* processed are in sent, the state is the one after the mutation.          *)
C31_BroadcastCarriesWholeSet ==
    \A i \in Positions(sent, "driversAvailable") : sent[i].data = activeDrivers

\* driverOffline(D1) was processed while C1 was available too: the broadcast
\* carries {C1}, which is neither the removed member nor the previous set
C31_Witness ==
    /\ last.op = "driverOffline" /\ last.userId = "D1"
    /\ activeDrivers = {"C1"}
    /\ \E i \in Positions(sent, "driversAvailable") : sent[i].data = {"C1"}

----------------------------------------------------------------------------
(* C34: reconnect interleaving.  When a participant sent updateLocation on  *)
(* a connection A, then on a newer connection B, and A closes afterwards,   *)
(* the disconnect of A removes nothing that belongs to the participant: its *)
(* Registry entry, which holds handle B, is kept as it is, and it stays in  *)
(* the Availability Set if it was there.                                    *)
C34_LateCloseKeepsReconnected ==
    [][ \A u \in UserIds :
          (/\ last'.op = "disconnect"
           /\ last'.socket \in seen.handles[u]
           /\ MapHas(connectedUsers, u)
           /\ MapGet(connectedUsers, u).socketId # last'.socket)
          => /\ MapHas(connectedUsers', u)
             /\ MapGet(connectedUsers', u) = MapGet(connectedUsers, u)
             /\ (u \in activeDrivers => u \in activeDrivers') ]_vars

\* D1 sent updateLocation on connections 1 and 2, its entry holds handle 2,
\* connection 1 has just closed and D1 is registered and available
C34_Witness ==
    /\ last.op = "disconnect" /\ last.socket = 1
    /\ seen.handles["D1"] = {1, 2}
    /\ MapHas(connectedUsers, "D1")
    /\ MapGet(connectedUsers, "D1").socketId = 2
    /\ "D1" \in activeDrivers

----------------------------------------------------------------------------
(* C35: the recipient of rideAccepted is chosen from the clientId of the    *)
(* acceptRide payload, not from the clientId recorded in the Ledger.  When  *)
(* acceptRide is processed for a ride of the Ledger whose recorded          *)
(* requester differs from the payload's clientId, the only notification     *)
(* emitted is one rideAccepted addressed to the connection handle of the    *)
(* participant named in the payload (none when that id has no handle), and  *)
(* the connection of the recorded requester, a different one, receives      *)
(* nothing.                                                                 *)
C35_PayloadChoosesRecipient ==
    [][ (/\ last'.op = "acceptRide"
         /\ MapHas(pendingRides, last'.rideId)
         /\ MapGet(pendingRides, last'.rideId).clientId # last'.clientId) =>
          LET r == last'.rideId
              c == last'.clientId
              q == MapGet(pendingRides, r).clientId
              addressed == MapHas(connectedUsers, c) /\ SocketOf(c) # NoSocket
          IN /\ addressed =>
                  sent' = <<[ev |-> "rideAccepted",
                             data |-> [rideId |-> r, driverId |-> last'.driverId],
                             rcpt |-> sockets \cap {SocketOf(c)}]>>
             /\ ~addressed => sent' = <<>>
             /\ (Live(q) /\ (addressed => SocketOf(q) # SocketOf(c))) =>
                  \A i \in 1..Len(sent') : SocketOf(q) \notin sent'[i].rcpt ]_vars

\* acceptRide naming client C1 was processed for a ride that D1 had
\* requested, both connected on different connections: C1 got the
\* rideAccepted, D1 nothing
C35_Witness ==
    /\ last.op = "acceptRide"
    /\ last.requester = "D1" /\ last.clientId = "C1"
    /\ Live("C1") /\ Live("D1") /\ SocketOf("C1") # SocketOf("D1")
    /\ Cardinality(Received(sent, SocketOf("C1"), "rideAccepted")) = 1
    /\ Received(sent, SocketOf("D1"), "rideAccepted") = {}

----------------------------------------------------------------------------
(* C36: acceptRide leaves the Registry and the Availability Set as they     *)
(* were, and is not conditioned on the accepting driver being in either:    *)
(* an acceptRide for a ride of the Ledger removes the ride and feeds        *)
(* rideAccepted naming the driverId of the payload whether or not that id   *)
(* is available or registered; and a driver that accepted a ride, being     *)
(* still available, is sent the rideRequest of every later requestRide on   *)
(* its connection.                                                          *)
C36_AcceptKeepsMembership ==
    [][ /\ last'.op = "acceptRide" =>
             /\ connectedUsers' = connectedUsers
             /\ activeDrivers' = activeDrivers
             /\ MapHas(pendingRides, last'.rideId) =>
                  /\ ~MapHas(pendingRides', last'.rideId)
                  /\ Len(feed') = 1
                  /\ feed'[1].ev = "rideAccepted"
                  /\ feed'[1].data.driverId = last'.driverId
        /\ last'.op = "requestRide" =>
             \A r \in RideIds :
                (/\ accepts[r].tracked /\ accepts[r].first # "none"
                 /\ accepts[r].first \in activeDrivers
                 /\ Live(accepts[r].first)) =>
                   Cardinality(Received(sent', SocketOf(accepts[r].first),
                                        "rideRequest")) = 1 ]_vars

\* an acceptRide naming D1 has just removed a requested ride and was fed
\* although D1 is neither registered nor in the Availability Set
C36_Witness ==
    /\ last.op = "acceptRide" /\ last.driverId = "D1"
    /\ last.requester # "none"
    /\ ~MapHas(pendingRides, last.rideId)
    /\ "D1" \notin activeDrivers
    /\ ~MapHas(connectedUsers, "D1")
    /\ Len(feed) = 1 /\ feed[1].ev = "rideAccepted"

----------------------------------------------------------------------------
(* C37: cancelRide(rideId, userId) removes the ride from the Ledger         *)
(* whatever userId it carries: the userId is not compared with the clientId *)
(* recorded for the ride, so any participant can cancel any pending ride;   *)
(* the other rides stay.  Once the ride is gone, an acceptRide for it finds *)
(* nothing: it changes no collection and emits nothing.                     *)
C37_AnyoneCancels ==
    [][ /\ last'.op = "cancelRide" =>
             /\ ~MapHas(pendingRides', last'.rideId)
             /\ \A r \in RideIds \ {last'.rideId} :
                   /\ MapHas(pendingRides', r) = MapHas(pendingRides, r)
                   /\ MapHas(pendingRides, r) =>
                         MapGet(pendingRides', r) = MapGet(pendingRides, r)
        /\ (last'.op = "acceptRide" /\ ~MapHas(pendingRides, last'.rideId)) =>
             /\ pendingRides' = pendingRides
             /\ connectedUsers' = connectedUsers
             /\ activeDrivers' = activeDrivers
             /\ sent' = <<>> /\ feed' = <<>> ]_vars

\* a cancelRide carrying another userId than the recorded requester of the
\* pending ride has just removed it
C37_Witness ==
    /\ last.op = "cancelRide"
    /\ last.requester # "none"
    /\ last.requester # last.userId
    /\ ~MapHas(pendingRides, last.rideId)

----------------------------------------------------------------------------
(* C38: the driver-connect endpoint replaces the whole Registry entry of    *)
(* the driver with one that has no connection handle.  For a driver that    *)
(* had registered through a socket: after an accepted call its entry has no *)
(* handle; while that lasts, the fan-out of a requestRide or cancelRide     *)
(* emits nothing to the connections the driver had used, although the       *)
(* driver is in the Availability Set; and the close of such a connection    *)
(* leaves the driver's entry and its membership as they are.                *)
C38_ConnectDropsHandle ==
    [][ \A d \in UserIds :
          LET handleless == MapHas(connectedUsers, d) /\ SocketOf(d) = NoSocket
              unshared == \A u \in UserIds \ {d} :
                             MapHas(connectedUsers, u) => SocketOf(u) \notin seen.handles[d]
          IN /\ (last'.op = "apiDriverConnect" /\ last'.driverId = d /\ res' = "200") =>
                  /\ MapHas(connectedUsers', d)
                  /\ MapGet(connectedUsers', d) =
                        [socketId |-> NoSocket, location |-> last'.location,
                         role |-> "driver"]
             /\ (/\ last'.op \in {"requestRide", "cancelRide"}
                 /\ handleless /\ unshared /\ d \in activeDrivers) =>
                  \A i \in 1..Len(sent') : sent'[i].rcpt \cap seen.handles[d] = {}
             /\ (/\ last'.op = "disconnect" /\ last'.socket \in seen.handles[d]
                 /\ handleless) =>
                  /\ MapHas(connectedUsers', d)
                  /\ MapGet(connectedUsers', d) = MapGet(connectedUsers, d)
                  /\ (d \in activeDrivers) = (d \in activeDrivers') ]_vars

\* D1 had sent updateLocation on connection 1, the endpoint replaced its
\* entry, and connection 1 has just closed: D1 is still registered, without
\* handle, and still in the Availability Set
C38_Witness ==
    /\ last.op = "disconnect" /\ last.socket \in seen.handles["D1"]
    /\ MapHas(connectedUsers, "D1")
    /\ SocketOf("D1") = NoSocket
    /\ "D1" \in activeDrivers
    /\ sockets = {}

----------------------------------------------------------------------------
(* C33: in every state in which at least one driversAvailable broadcast has *)
(* been emitted, the list carried by the most recent driversAvailable       *)
(* broadcast equals the current Availability Set: no participant holds a    *)
(* stale availability list.                                                 *)
C33_AnnouncedListIsCurrent ==
    seen.announced.any => seen.announced.list = activeDrivers

----------------------------------------------------------------------------
(* C39: on the Monitoring Feed, every rideAccepted event of a ride id is    *)
(* preceded by a rideCreated event of the same ride id, and the pickup and  *)
(* destination of the rideAccepted equal those of the most recent preceding *)
(* rideCreated of that ride.                                                *)
C39_AcceptedFollowsCreated ==
    [][ \A i \in Positions(feed', "rideAccepted") :
          LET c == seen.created[feed'[i].data.rideId]
          IN /\ c.any
             /\ feed'[i].data.pickupLocation = c.pickup
             /\ feed'[i].data.destinationLocation = c.destination ]_vars

----------------------------------------------------------------------------
(* C32: a driver who goes online receives the ride requests made afterwards *)
(* in the driver dashboard.  While the dashboard is online with no current  *)
(* ride, each rideRequest that arrives is appended to the list of available *)
(* rides; and a rideCancelled that arrives removes that ride from the list. *)
C32_DashboardListsRequests ==
    [][ /\ (/\ dash'.event.op = "rideRequest"
            /\ dash.isOnline /\ dash.currentRide = "none") =>
              dash'.availableRides = Append(dash.availableRides, dash'.event.rideId)
        /\ dash'.event.op = "rideCancelled" =>
              dash'.availableRides = WithoutRide(dash.availableRides, dash'.event.rideId)
      ]_vars

============================================================================
